---- MODULE Spec2Model ----
(***************************************************************************)
(* A model of the powerdns client library: the domain canonicalizer        *)
(* (zones.rs), the ServerClient operations (server.rs) and the ZoneClient  *)
(* operations (zones.rs), with the error type of error.rs.                 *)
(*                                                                         *)
(* A string is a sequence of one-character strings.  An HTTP exchange is   *)
(* an input of each operation: either the transport fails, or a response   *)
(* with a status code and a body arrives.  The result of a call is Ok, an  *)
(* Err carrying an Error variant, or Panic (an unwrap() on an Err).        *)
(***************************************************************************)
EXTENDS Integers, Sequences, FiniteSets, TLC

VARIABLES
    op,       \* the operation of the last call ("none" before the first)
    arg,      \* its zone_id / server_id argument (<<>> when it takes none)
    sent,     \* the HTTP requests the call issued, in order
    resp,     \* the HTTP exchange the transport answered with
    outcome,  \* what the call gave its caller
    domain,   \* the input of canonicalize_domain
    canon,    \* canonicalize_domain(domain)
    recanon   \* canonicalize_domain applied to the value of canon

vars == <<op, arg, sent, resp, outcome, domain, canon, recanon>>

(***************************************************************************)
(* Bounds.                                                                 *)
(***************************************************************************)
MaxLen == 5         \* longest input of canonicalize_domain
MaxZoneIdLen == 3   \* longest zone_id handed to a ZoneClient operation
MaxItems == 2       \* longest JSON array in a response body

(***************************************************************************)
(* Strings.                                                                *)
(***************************************************************************)
Alphabet == {"a", "c", "-", "/", "."}

\* char::is_alphanumeric, on the alphabet
is_alphanumeric(ch) == ch \in {"a", "c"}

StringsUpTo(n) == UNION {[1..k -> Alphabet] : k \in 0..n}

ends_with(s, ch) == Len(s) > 0 /\ s[Len(s)] = ch

\* str::strip_suffix('.').unwrap_or(s)
strip_trailing_dot(s) == IF ends_with(s, ".") THEN SubSeq(s, 1, Len(s) - 1) ELSE s

\* str::split('.'): the labels of s, at least one, possibly empty ones
RECURSIVE split(_)
split(s) ==
    IF \A i \in 1..Len(s) : s[i] # "."
    THEN <<s>>
    ELSE LET i == CHOOSE k \in 1..Len(s) :
                      s[k] = "." /\ \A j \in 1..(k - 1) : s[j] # "."
         IN  <<SubSeq(s, 1, i - 1)>> \o split(SubSeq(s, i + 1, Len(s)))

(***************************************************************************)
(* addr::parse_domain_name, as canonicalize_domain uses it.  The limits on *)
(* the length of a name (253) and of a label (63) lie beyond MaxLen and    *)
(* are left out; the alphabet has two letters, '-', '.' and one character  *)
(* ('/') that no label may hold.                                           *)
(***************************************************************************)
\* The public suffix list: the one known top-level domain of the alphabet.
PublicSuffixList == {<<"c">>}

\* A label is non-empty, starts and ends with an alphanumeric character and
\* holds only alphanumerics and '-'.
is_label(label) ==
    /\ Len(label) > 0
    /\ is_alphanumeric(label[1])
    /\ is_alphanumeric(label[Len(label)])
    /\ \A i \in 1..Len(label) : label[i] = "-" \/ is_alphanumeric(label[i])

\* A domain name is a dot-separated list of labels; one trailing dot (the
\* root) is allowed.
is_domain_name(name) ==
    LET labels == split(strip_trailing_dot(name))
    IN  \A i \in 1..Len(labels) : is_label(labels[i])

\* The suffix of a name is known when its rightmost label is on the list;
\* any other name matches only the list's implicit "*" rule.
suffix_is_known(name) ==
    LET labels == split(strip_trailing_dot(name))
    IN  labels[Len(labels)] \in PublicSuffixList

\* Ok(Name) keeps the input as it is (Name::as_str) with its suffix lookup.
parse_domain_name(name) ==
    IF is_domain_name(name)
    THEN [ok |-> TRUE, full |-> name, known |-> suffix_is_known(name)]
    ELSE [ok |-> FALSE, full |-> <<>>, known |-> FALSE]

has_known_suffix(parsed) == parsed.known

(***************************************************************************)
(* canonicalize_domain                                                     *)
(***************************************************************************)
CanonErr == [ok |-> FALSE, called |-> TRUE, val |-> <<>>]
CanonOk(root) == [ok |-> TRUE, called |-> TRUE, val |-> root]
NotCalled == [ok |-> FALSE, called |-> FALSE, val |-> <<>>]

\* A slip: the dot is appended without looking at the end of the name.
canonicalize_domain_always_appends(name) ==
    LET parsed == parse_domain_name(name)
    IN  IF ~parsed.ok THEN CanonErr
        ELSE IF ~has_known_suffix(parsed) THEN CanonErr
        ELSE CanonOk(parsed.full \o <<".">>)

\* A slip: the suffix is never looked up.
canonicalize_domain_any_suffix(name) ==
    LET parsed == parse_domain_name(name)
    IN  IF ~parsed.ok THEN CanonErr
        ELSE CanonOk(IF ends_with(parsed.full, ".")
                     THEN parsed.full ELSE parsed.full \o <<".">>)

canonicalize_domain(name) ==
    LET parsed == parse_domain_name(name)
    IN  IF ~parsed.ok THEN CanonErr
        ELSE LET root == parsed.full
             IN  IF ~has_known_suffix(parsed) THEN CanonErr
                 ELSE CanonOk(IF ends_with(root, ".") THEN root
                              ELSE root \o <<".">>)

(***************************************************************************)
(* The Client's configuration (client.rs) and the requests built from it.  *)
(***************************************************************************)
base_url == "http://localhost:8081"
server_name == "localhost"

ServerIds == {"localhost", "other"}
ZoneIds == StringsUpTo(MaxZoneIdLen)

\* format!("{}<template>", base_url, ...): the template with what fills it
Url(template, server, zone) ==
    [template |-> template, server |-> server, zone |-> zone, base |-> base_url]

Request(method, url) == [method |-> method, url |-> url]

ServerListRequest == Request("GET", Url("/api/v1/servers", "", <<>>))

ServerGetRequest(server_id) ==
    Request("GET", Url("/api/v1/servers/{server_id}", server_id, <<>>))

ZoneListRequest ==
    Request("GET", Url("/api/v1/servers/{}/zones", server_name, <<>>))

ZoneGetRequest(zone_id) ==
    Request("GET", Url("/api/v1/servers/{}/zones/{zone_id}", server_name, zone_id))

ZoneDeleteRequest(zone_id) ==
    Request("DELETE", Url("/api/v1/servers/{}/zones/{zone_id}", server_name, zone_id))

\* The JSON body of a PATCH (the PatchZone) does not bear on the result and
\* is left out of the request.
\* A slip: patch canonicalizes like get and delete do.
ZonePatchRequestCanonical(zone_id) ==
    Request("PATCH", Url("/api/v1/servers/{}/zones/{zone_id}", server_name,
                         canonicalize_domain(zone_id).val))

ZonePatchRequest(zone_id) ==
    Request("PATCH", Url("/api/v1/servers/{}/zones/{zone_id}", server_name, zone_id))

(***************************************************************************)
(* Response bodies and their deserialization (serde, through               *)
(* reqwest::Response::json).                                               *)
(***************************************************************************)
Messages == {"conflict", "Not Found"}
ZoneNames == {"example.org."}
None == "<none>"

Malformed == [t |-> "malformed", schema |-> "", key |-> "", items |-> <<>>]
Null == [t |-> "null", schema |-> "", key |-> "", items |-> <<>>]
ErrorObject(m) == [t |-> "object", schema |-> "error", key |-> m, items |-> <<>>]
ServerObject(id) == [t |-> "object", schema |-> "server", key |-> id, items |-> <<>>]
ZoneObject(z) == [t |-> "object", schema |-> "zone", key |-> z, items |-> <<>>]
Array(items) == [t |-> "array", schema |-> "", key |-> "", items |-> items]

Elements ==
    {ServerObject(id) : id \in ServerIds} \cup {ZoneObject(z) : z \in ZoneNames}
        \cup {Null}

Bodies ==
    {Malformed, Null}
        \cup {ErrorObject(m) : m \in Messages}
        \cup {ServerObject(id) : id \in ServerIds}
        \cup {ZoneObject(z) : z \in ZoneNames}
        \cup {Array(items) : items \in UNION {[1..k -> Elements] : k \in 0..MaxItems}}

DeErr == [ok |-> FALSE, val |-> None]
DeOk(v) == [ok |-> TRUE, val |-> v]

\* PowerDNSResponseError: `error` is required, `errors` is optional
de_error(v) ==
    IF v.t = "object" /\ v.schema = "error"
    THEN DeOk([error |-> v.key])
    ELSE DeErr

\* Server: every field is required
de_server(v) ==
    IF v.t = "object" /\ v.schema = "server"
    THEN DeOk([id |-> v.key])
    ELSE DeErr

\* Zone: every field is an Option, so every JSON object is a Zone
de_zone(v) ==
    IF v.t = "object"
    THEN DeOk([name |-> IF v.schema = "zone" THEN v.key ELSE None,
               id |-> IF v.schema \in {"server", "zone"} THEN v.key ELSE None])
    ELSE DeErr

\* Vec<Server>: the elements in order, or the first element's error
RECURSIVE de_servers(_)
de_servers(items) ==
    IF items = <<>> THEN DeOk(<<>>)
    ELSE LET head == de_server(Head(items))
         IN  IF ~head.ok THEN DeErr
             ELSE LET rest == de_servers(Tail(items))
                  IN  IF ~rest.ok THEN DeErr
                      ELSE DeOk(<<head.val>> \o rest.val)

\* A slip: the elements are pushed to the front, so they come out reversed.
RECURSIVE de_servers_reversed(_)
de_servers_reversed(items) ==
    IF items = <<>> THEN DeOk(<<>>)
    ELSE LET head == de_server(Head(items))
         IN  IF ~head.ok THEN DeErr
             ELSE LET rest == de_servers_reversed(Tail(items))
                  IN  IF ~rest.ok THEN DeErr
                      ELSE DeOk(rest.val \o <<head.val>>)

de_vec_server_reversed(v) ==
    IF v.t = "array" THEN de_servers_reversed(v.items) ELSE DeErr

de_vec_server(v) == IF v.t = "array" THEN de_servers(v.items) ELSE DeErr

RECURSIVE de_zones(_)
de_zones(items) ==
    IF items = <<>> THEN DeOk(<<>>)
    ELSE LET head == de_zone(Head(items))
         IN  IF ~head.ok THEN DeErr
             ELSE LET rest == de_zones(Tail(items))
                  IN  IF ~rest.ok THEN DeErr
                      ELSE DeOk(<<head.val>> \o rest.val)

de_vec_zone(v) == IF v.t = "array" THEN de_zones(v.items) ELSE DeErr

(***************************************************************************)
(* HTTP exchanges: what `.send().await` and the response hold.             *)
(***************************************************************************)
NO_CONTENT == 204
BAD_REQUEST == 400
NOT_FOUND == 404
UNPROCESSABLE_ENTITY == 422
INTERNAL_SERVER_ERROR == 500

Statuses ==
    {200, 201, NO_CONTENT, 304, BAD_REQUEST, NOT_FOUND, 418,
     UNPROCESSABLE_ENTITY, INTERNAL_SERVER_ERROR}

NoExchange == [transport |-> "none", status |-> 0, body |-> Malformed]
TransportFailure == [transport |-> "failed", status |-> 0, body |-> Malformed]
Response(status, body) == [transport |-> "ok", status |-> status, body |-> body]

Exchanges ==
    {TransportFailure} \cup {Response(s, b) : s \in Statuses, b \in Bodies}

\* A slip: every status below 400 counts as a success.
is_success_below_400(status) == status < 400

\* StatusCode::is_success
is_success(status) == 200 <= status /\ status < 300

(***************************************************************************)
(* Results (error.rs).                                                     *)
(***************************************************************************)
Unit == "()"
NoResult == [kind |-> "None", variant |-> "", payload |-> None]
Ok(v) == [kind |-> "Ok", variant |-> "", payload |-> v]
Err(variant, payload) == [kind |-> "Err", variant |-> variant, payload |-> payload]
\* unwrap() on an Err: the call does not return
Panic == [kind |-> "Panic", variant |-> "", payload |-> None]

\* Err(resp.json::<PowerDNSResponseError>().await?)?
\* json() fails with a reqwest::Error, which `?` turns into RequestError;
\* the decoded error object becomes Error::PowerDNS
error_response(body) ==
    LET e == de_error(body)
    IN  IF e.ok THEN Err("PowerDNS", e.val) ELSE Err("RequestError", "decode")

(***************************************************************************)
(* What each operation gives its caller for an exchange.                   *)
(***************************************************************************)
\* ServerClient::list: send().await.unwrap(), json().await.unwrap()
server_list_result(x) ==
    IF x.transport = "failed" THEN Panic
    ELSE IF is_success(x.status)
         THEN LET d == de_vec_server(x.body)
              IN  IF d.ok THEN Ok(d.val) ELSE Panic
         ELSE error_response(x.body)

\* ServerClient::get
server_get_result(x) ==
    IF x.transport = "failed" THEN Panic
    ELSE IF is_success(x.status)
         THEN LET d == de_server(x.body)
              IN  IF d.ok THEN Ok(d.val) ELSE Panic
         ELSE error_response(x.body)

\* ZoneClient::list: send().await.unwrap(), json().await?
zone_list_result(x) ==
    IF x.transport = "failed" THEN Panic
    ELSE IF is_success(x.status)
         THEN LET d == de_vec_zone(x.body)
              IN  IF d.ok THEN Ok(d.val) ELSE Err("RequestError", "decode")
         ELSE error_response(x.body)

\* ZoneClient::get, once zone_id is canonical
zone_get_result(x) ==
    IF x.transport = "failed" THEN Panic
    ELSE IF is_success(x.status)
         THEN LET d == de_zone(x.body)
              IN  IF d.ok THEN Ok(d.val) ELSE Err("RequestError", "decode")
         ELSE error_response(x.body)

\* ZoneClient::delete, once zone_id is canonical: the body of a success is
\* not read
zone_delete_result(x) ==
    IF x.transport = "failed" THEN Panic
    ELSE IF is_success(x.status) THEN Ok(Unit)
         ELSE error_response(x.body)

\* A slip: patch tells success from failure as the other operations do.
zone_patch_result_by_class(x) ==
    IF x.transport = "failed" THEN Err("RequestError", "transport")
    ELSE IF is_success(x.status) THEN Ok(Unit)
         ELSE Err("PowerDNS", de_error(x.body).val)

\* ZoneClient::patch: send().await?, then the match on the status
zone_patch_result(x) ==
    IF x.transport = "failed" THEN Err("RequestError", "transport")
    ELSE IF x.status = NO_CONTENT THEN Ok(Unit)
         ELSE IF x.status \in {BAD_REQUEST, NOT_FOUND, UNPROCESSABLE_ENTITY,
                               INTERNAL_SERVER_ERROR}
              THEN LET e == de_error(x.body)
                   IN  IF e.ok THEN Err("PowerDNS", e.val)
                       ELSE Err("RequestError", "decode")
              ELSE Err("UnexpectedStatusCode", x.status)

(***************************************************************************)
(* The calls.  Each action is one whole call of an operation, with its     *)
(* argument and the exchange the transport answers with as inputs.         *)
(***************************************************************************)
\* No state is shared between calls: a call starts from the idle client
\* (Idle) and ends with its result in the caller's hands.
Idle == op = "none"

Returns(o, a, reqs, x, r) ==
    /\ op' = o
    /\ arg' = a
    /\ sent' = reqs
    /\ resp' = x
    /\ outcome' = r
    /\ UNCHANGED <<domain, canon, recanon>>

ServerList ==
    /\ Idle
    /\ \E x \in Exchanges :
            Returns("server_list", <<>>, <<ServerListRequest>>, x, server_list_result(x))

ServerGet ==
    /\ Idle
    /\ \E server_id \in ServerIds, x \in Exchanges :
            Returns("server_get", server_id, <<ServerGetRequest(server_id)>>, x,
                    server_get_result(x))

ZoneList ==
    /\ Idle
    /\ \E x \in Exchanges :
            Returns("zone_list", <<>>, <<ZoneListRequest>>, x, zone_list_result(x))

\* canonicalize_domain(zone_id).unwrap() comes before the request is built
ZoneGet ==
    /\ Idle
    /\ \E zone_id \in ZoneIds, x \in Exchanges :
            LET c == canonicalize_domain(zone_id)
            IN  IF ~c.ok
                THEN Returns("zone_get", zone_id, <<>>, NoExchange, Panic)
                ELSE Returns("zone_get", zone_id, <<ZoneGetRequest(c.val)>>, x,
                             zone_get_result(x))

ZoneDelete ==
    /\ Idle
    /\ \E zone_id \in ZoneIds, x \in Exchanges :
            LET c == canonicalize_domain(zone_id)
            IN  IF ~c.ok
                THEN Returns("zone_delete", zone_id, <<>>, NoExchange, Panic)
                ELSE Returns("zone_delete", zone_id, <<ZoneDeleteRequest(c.val)>>, x,
                             zone_delete_result(x))

ZonePatch ==
    /\ Idle
    /\ \E zone_id \in ZoneIds, x \in Exchanges :
            Returns("zone_patch", zone_id, <<ZonePatchRequest(zone_id)>>, x,
                    zone_patch_result(x))

\* The caller drops the result; the client is as it was before the call.
Drop ==
    /\ op # "none"
    /\ op' = "none"
    /\ arg' = <<>>
    /\ sent' = <<>>
    /\ resp' = NoExchange
    /\ outcome' = NoResult
    /\ UNCHANGED <<domain, canon, recanon>>

Init ==
    /\ op = "none"
    /\ arg = <<>>
    /\ sent = <<>>
    /\ resp = NoExchange
    /\ outcome = NoResult
    /\ domain = <<>>
    /\ canon = NotCalled
    /\ recanon = NotCalled

Next ==
    \/ ServerList
    \/ ServerGet
    \/ ZoneList
    \/ ZoneGet
    \/ ZoneDelete
    \/ ZonePatch
    \/ Drop

Spec == Init /\ [][Next]_vars

(***************************************************************************)
(* canonicalize_domain on its own: every string up to MaxLen is an input,  *)
(* and a successful result is canonicalized again.                         *)
(***************************************************************************)
CanonInit ==
    /\ op = "none"
    /\ arg = <<>>
    /\ sent = <<>>
    /\ resp = NoExchange
    /\ outcome = NoResult
    /\ domain \in StringsUpTo(MaxLen)
    /\ canon = NotCalled
    /\ recanon = NotCalled

Canonicalize ==
    /\ ~canon.called
    /\ canon' = canonicalize_domain(domain)
    /\ UNCHANGED <<op, arg, sent, resp, outcome, domain, recanon>>

Recanonicalize ==
    /\ canon.called /\ canon.ok
    /\ ~recanon.called
    /\ recanon' = canonicalize_domain(canon.val)
    /\ UNCHANGED <<op, arg, sent, resp, outcome, domain, canon>>

CanonNext == Canonicalize \/ Recanonicalize

CanonSpec == CanonInit /\ [][CanonNext]_vars

(***************************************************************************)
(* Properties.                                                             *)
(***************************************************************************)
ExampleCom == <<"a", ".", "c">>          \* a name under the known suffix
ExampleComDot == <<"a", ".", "c", ".">>
SubExampleCom == <<"a", ".", "a", ".", "c">>
UnknownTld == <<"c", ".", "a">>          \* a name whose suffix is not listed

IsOkUnit == outcome.kind = "Ok" /\ outcome.payload = Unit
IsErr(variant) == outcome.kind = "Err" /\ outcome.variant = variant

\* C1: ZoneClient::patch maps the status of the response by an exact table:
\* 204 gives Ok(()) whatever the body; 400, 404, 422 and 500 with a JSON
\* error body give Error::PowerDNS carrying the body's message; every other
\* status (200 and 418 among them) gives Error::UnexpectedStatusCode carrying
\* that status, never a success or a server error.
C1_PatchStatusTable ==
    (op = "zone_patch" /\ resp.transport = "ok") =>
        /\ resp.status = 204 => IsOkUnit
        /\ (/\ resp.status \in {400, 404, 422, 500}
            /\ resp.body.t = "object"
            /\ resp.body.schema = "error")
               => (IsErr("PowerDNS") /\ outcome.payload.error = resp.body.key)
        /\ resp.status \notin {204, 400, 404, 422, 500}
               => (IsErr("UnexpectedStatusCode") /\ outcome.payload = resp.status)

\* patch answered 400 with {"error": "conflict"}
C1_Witness ==
    /\ op = "zone_patch"
    /\ resp = Response(400, ErrorObject("conflict"))
    /\ IsErr("PowerDNS")
    /\ outcome.payload.error = "conflict"

\* C2: ZoneClient::get and delete canonicalize zone_id first: an invalid
\* zone_id ends the call with an invalid-domain error value and no request;
\* a valid one issues exactly one request, for the canonical name.
C2_InvalidDomainIsAnError ==
    op \in {"zone_get", "zone_delete"} =>
        IF canonicalize_domain(arg).ok
        THEN /\ Len(sent) = 1
             /\ sent[1].url.zone = canonicalize_domain(arg).val
        ELSE /\ sent = <<>>
             /\ IsErr("InvalidDomain")

\* C3: a transport failure ends every operation with the request-error
\* variant returned to the caller.
C3_TransportFailureIsAnError ==
    (op # "none" /\ resp.transport = "failed") => IsErr("RequestError")

\* C4: for every operation, a response whose status is neither a success nor
\* one of 400, 404, 422, 500 gives the unexpected-status error carrying the
\* status, and only 400, 404, 422 and 500 give the server error.
C4_UnknownStatusIsUnexpected ==
    (op # "none" /\ resp.transport = "ok") =>
        /\ (resp.status \notin {400, 404, 422, 500} /\ ~(resp.status \in 200..299))
               => (IsErr("UnexpectedStatusCode") /\ outcome.payload = resp.status)
        /\ IsErr("PowerDNS")
               => resp.status \in {400, 404, 422, 500}

GetOps == {"server_list", "server_get", "zone_list", "zone_get"}

WellFormed(name) ==
    LET d == strip_trailing_dot(name)
    IN  /\ Len(d) > 0
        /\ \A i \in 1..Len(d) : d[i] \in {"a", "c", "-", "."}
        /\ d[1] \in {"a", "c"}
        /\ d[Len(d)] \in {"a", "c"}
        /\ \A i \in 2..(Len(d) - 1) :
               d[i] = "." => (d[i - 1] \in {"a", "c"} /\ d[i + 1] \in {"a", "c"})

\* Its suffix is recognized when its last label is the listed "c".
RecognizedSuffix(name) ==
    LET d == strip_trailing_dot(name)
    IN  /\ Len(d) > 0
        /\ d[Len(d)] = "c"
        /\ (Len(d) = 1 \/ d[Len(d) - 1] = ".")

\* C6: canonicalize_domain is idempotent: when canonicalize_domain(x) is
\* Ok(y), canonicalize_domain(y) is Ok(y) too.
C6_CanonicalizeIdempotent ==
    recanon.called => (recanon.ok /\ recanon.val = canon.val)

\* a name without the trailing dot was canonicalized, and its result again
C6_Witness ==
    /\ recanon.called
    /\ domain = ExampleCom
    /\ canon.val # domain

C8_MalformedBodyIsDeserializeError ==
    (/\ op \in GetOps
     /\ resp.transport = "ok"
     /\ resp.status = 200
     /\ resp.body.t = "malformed")
        => IsErr("DeserializeError")

AllServers(items) ==
    \A i \in 1..Len(items) : items[i].t = "object" /\ items[i].schema = "server"

\* C9: ServerClient::list on a 200 response whose body is an array of N
\* server objects returns Ok with N servers, the i-th being the i-th element.
C9_ServerListInOrder ==
    (/\ op = "server_list"
     /\ resp.transport = "ok"
     /\ resp.status = 200
     /\ resp.body.t = "array"
     /\ AllServers(resp.body.items))
        => /\ outcome.kind = "Ok"
           /\ Len(outcome.payload) = Len(resp.body.items)
           /\ \A i \in 1..Len(resp.body.items) :
                  outcome.payload[i].id = resp.body.items[i].key

\* list answered 200 with two different servers
C9_Witness ==
    /\ op = "server_list"
    /\ resp = Response(200, Array(<<ServerObject("localhost"), ServerObject("other")>>))
    /\ outcome.kind = "Ok"
    /\ Len(outcome.payload) = 2

\* C10: ZoneClient::patch never canonicalizes or validates zone_id: it
\* issues exactly one PATCH request whose zone segment is zone_id as given,
\* and never fails for an invalid domain.
C10_PatchSendsZoneIdAsGiven ==
    op = "zone_patch" =>
        /\ Len(sent) = 1
        /\ sent[1].method = "PATCH"
        /\ sent[1].url.zone = arg
        /\ outcome.kind # "Panic"
        /\ ~IsErr("InvalidDomain")

\* patch was called with a zone_id canonicalize_domain rejects
C10_Witness ==
    /\ op = "zone_patch"
    /\ ~canonicalize_domain(arg).ok
    /\ Len(sent) = 1
    /\ sent[1].url.zone = arg

====
